---------------------------- MODULE Spec2Model ----------------------------
(***************************************************************************)
(* Elliptic-curve precompile event builders of the executor                *)
(* (crates/core/executor/src/events/precompiles/ec.rs):                    *)
(* create_ec_add_event, create_ec_double_event, create_ec_decompress_event.*)
(*                                                                         *)
(* The executor is single threaded: one handler runs at a time, from its   *)
(* entry to its return or to a panic.  Every handler is modelled as the    *)
(* sequence of its calls on the syscall context (slice_unsafe, mr_slice,   *)
(* mw_slice, postprocess), one action per call, so that the order of the   *)
(* accesses and the clock value of each one are part of the state.         *)
(*                                                                         *)
(* The syscall context and the curve library are not part of ec.rs; they   *)
(* are modelled from the specification's port contracts.  The curve group  *)
(* is abstracted as the additive group Z_P x Z_P: the handlers use only    *)
(* decode, add, double, decompress and encode.                             *)
(***************************************************************************)
EXTENDS Integers, Sequences, FiniteSets, TLC

VARIABLES
    mem,                    \* executor memory: word index -> word value
    clk,                    \* rt.clk, the executor clock
    local_mem_access,       \* rt's per-instruction local memory accesses
    local_page_prot_access, \* rt's per-instruction local page-prot accesses
    curve,                  \* E, the curve the handlers are instantiated at
    pc,                     \* position of the running handler
    frame,                  \* locals of the running (or last) handler
    trace,                  \* port calls issued by the running (or last) handler
    entry,                  \* executor state at entry to that handler
    event,                  \* event returned by the last handler, or NoEvent
    ncalls                  \* handler invocations started so far

vars == <<mem, clk, local_mem_access, local_page_prot_access, curve, pc,
          frame, trace, entry, event, ncalls>>

---------------------------------------------------------------------------
(* Bounds of the model.                                                    *)

\* Handler invocations in one behaviour.
MaxCalls == 2
\* Width of an address in bits (u64 in the program, scaled down).
AddrBits == 8
\* Number of values of a byte (256 in the program, scaled down).
ByteBase == 2

AddrMod == 2 ^ AddrBits
WordMod == ByteBase ^ 8
NumMemWords == AddrMod \div 8

\* Bytes per page of the page-protection layer (scaled down).
PageSize == 64

NoEvent == [kind |-> "none"]

---------------------------------------------------------------------------
(* Curve capability (sp1_curves).                                          *)

CurveTypes == {"Secp256k1", "Secp256r1", "Bls12381", "Ed25519"}

\* <E::BaseField as NumLimbs>::Limbs: bytes of a field element.
Limbs(E) == IF E = "Bls12381" THEN 48 ELSE 32

\* <E::BaseField as NumWords>::WordsCurvePoint: u64 words of a point.
WordsCurvePoint(E) == 2 * (Limbs(E) \div 8)

\* The field modulus (scaled down to a small prime per curve).
Modulus(E) ==
    CASE E = "Secp256k1" -> 7
      [] E = "Secp256r1" -> 11
      [] E = "Bls12381" -> 13
      [] OTHER -> 5

\* Value of a little-endian digit sequence in base b, reduced modulo m.
RECURSIVE LeValueMod(_, _, _)
LeValueMod(ds, b, m) ==
    IF ds = <<>> THEN 0
    ELSE (Head(ds) + b * LeValueMod(Tail(ds), b, m)) % m

\* The minimal little-endian digits of n in base b (BigUint::to_bytes_le:
\* zero is the single digit 0).
RECURSIVE LeDigits(_, _)
LeDigits(n, b) ==
    IF n < b THEN <<n>> ELSE <<n % b>> \o LeDigits(n \div b, b)

\* Vec::resize(len, 0): truncate or pad with zeros.
Resize(s, len) ==
    [i \in 1..len |-> IF i <= Len(s) THEN s[i] ELSE 0]

Reverse(s) == [i \in 1..Len(s) |-> s[Len(s) + 1 - i]]

\* AffinePoint::from_words_le: x from the first half, y from the second.
from_words_le(E, ws) ==
    LET h == Len(ws) \div 2 IN
    <<LeValueMod(SubSeq(ws, 1, h), WordMod, Modulus(E)),
      LeValueMod(SubSeq(ws, h + 1, Len(ws)), WordMod, Modulus(E))>>

\* AffinePoint::to_words_le: x then y, each padded to half the point width.
to_words_le(E, pt) ==
    LET h == WordsCurvePoint(E) \div 2 IN
    Resize(LeDigits(pt[1], WordMod), h) \o Resize(LeDigits(pt[2], WordMod), h)

\* p + q in the curve group.
ec_add(E, a, b) ==
    <<(a[1] + b[1]) % Modulus(E), (a[2] + b[2]) % Modulus(E)>>

\* 2p in the curve group.
ec_double(E, a) ==
    <<(2 * a[1]) % Modulus(E), (2 * a[2]) % Modulus(E)>>

\* secp256k1_decompress, secp256r1_decompress, bls12381_decompress: the point
\* with the given x (big-endian bytes) whose y has the given sign.
decompress_fn(E, x_bytes_be, sign) ==
    LET x == LeValueMod(Reverse(x_bytes_be), ByteBase, Modulus(E))
        y0 == (x * x * x + 3) % Modulus(E)
        y == IF y0 % 2 = sign THEN y0 ELSE (Modulus(E) - y0) % Modulus(E)
    IN  <<x, y>>

---------------------------------------------------------------------------
(* sp1_primitives::consts                                                  *)

\* words_to_bytes_le_vec: 8 little-endian bytes per word.
words_to_bytes_le_vec(ws) ==
    [k \in 1..(8 * Len(ws)) |->
        (ws[((k - 1) \div 8) + 1] \div (ByteBase ^ ((k - 1) % 8))) % ByteBase]

RECURSIVE LeValue(_, _)
LeValue(ds, b) ==
    IF ds = <<>> THEN 0 ELSE Head(ds) + b * LeValue(Tail(ds), b)

\* bytes_to_words_le_vec: one word per 8 bytes.
bytes_to_words_le_vec(bs) ==
    [i \in 1..(Len(bs) \div 8) |->
        LeValue(SubSeq(bs, 8 * (i - 1) + 1, 8 * i), ByteBase)]

---------------------------------------------------------------------------
(* Memory / page-protection port (SyscallContext).                         *)

WordIndex(addr) == addr \div 8
PageOf(addr) == addr \div PageSize

\* The addresses of len words from addr.
SliceAddrs(addr, len) == [i \in 1..len |-> addr + 8 * (i - 1)]

\* The pages a slice touches, in address order, each once.
RECURSIVE Dedup(_)
Dedup(s) ==
    IF Len(s) <= 1 THEN s
    ELSE IF s[1] = s[2] THEN Dedup(Tail(s))
    ELSE <<s[1]>> \o Dedup(Tail(s))

SlicePages(addr, len) ==
    Dedup([i \in 1..len |-> PageOf(addr + 8 * (i - 1))])

\* rt.slice_unsafe(addr, len): the words, no record.
slice_unsafe(m, addr, len) ==
    [i \in 1..len |-> m[WordIndex(addr + 8 * (i - 1))]]

\* The memory records of rt.mr_slice(addr, len) at clock c.
mr_records(m, addr, len, c) ==
    [i \in 1..len |->
        [addr |-> addr + 8 * (i - 1),
         value |-> m[WordIndex(addr + 8 * (i - 1))],
         clk |-> c]]

\* The memory records of rt.mw_slice(addr, values) at clock c.
mw_records(m, addr, values, c) ==
    [i \in 1..Len(values) |->
        [addr |-> addr + 8 * (i - 1),
         prev_value |-> m[WordIndex(addr + 8 * (i - 1))],
         value |-> values[i],
         clk |-> c]]

\* The page-protection records of one checked slice access at clock c.
page_prot_records(addr, len, c) ==
    LET ps == SlicePages(addr, len) IN
    [i \in 1..Len(ps) |-> [page |-> ps[i], clk |-> c]]

\* Memory after rt.mw_slice(addr, values).
mw_memory(m, addr, values) ==
    [w \in DOMAIN m |->
        IF \E i \in 1..Len(values) : w = WordIndex(addr + 8 * (i - 1))
        THEN values[CHOOSE i \in 1..Len(values) :
                        w = WordIndex(addr + 8 * (i - 1))]
        ELSE m[w]]

Range(s) == {s[i] : i \in DOMAIN s}

PortCall(op, addr, len) == [op |-> op, addr |-> addr, len |-> len, clk |-> clk]

---------------------------------------------------------------------------
(* State at construction and inputs.                                       *)

EmptyFrame ==
    [handler |-> "none", E |-> "none", arg1 |-> 0, arg2 |-> 0,
     start_clk |-> 0, p |-> <<>>, read_words |-> <<>>, result_words |-> <<>>,
     read_records |-> <<>>, read_page_prot_records |-> <<>>,
     write_records |-> <<>>, write_page_prot_records |-> <<>>,
     x_addr |-> 0, x_bytes |-> <<>>, decompressed_y_bytes |-> <<>>,
     fault |-> "none"]

\* Initial memory contents the behaviours start from.
InitMems ==
    {[w \in 0..(NumMemWords - 1) |-> (w * mc[1] + mc[2]) % WordMod] :
        mc \in {<<3, 1>>, <<0, 2>>}}

\* (p_ptr, q_ptr) arguments of an addition: the same operand, operands that
\* overlap in part (either order), disjoint operands, misaligned pointers.
AddInputs ==
    {<<0, 0>>, <<0, 8>>, <<8, 0>>, <<0, 96>>, <<4, 0>>, <<0, 4>>, <<4, 4>>}

\* p_ptr arguments of a doubling.
DoubleInputs == {0, 4, 96}

\* slice_ptr arguments of a decompression: the lowest pointer, a misaligned
\* one, and the highest pointer whose written region lies in the address
\* range.
SlicePtrInputs(E) == {0, 4, AddrMod - Limbs(E)}

\* sign_bit arguments.
SignInputs == {0, 1, 2}

Snapshot ==
    [mem |-> mem, clk |-> clk, local_mem_access |-> local_mem_access,
     local_page_prot_access |-> local_page_prot_access]

Init ==
    /\ mem \in InitMems
    /\ clk = 1
    /\ local_mem_access = {}
    /\ local_page_prot_access = {}
    /\ curve \in CurveTypes
    /\ pc = "idle"
    /\ frame = EmptyFrame
    /\ trace = <<>>
    /\ entry = [mem |-> mem, clk |-> 1, local_mem_access |-> {},
                local_page_prot_access |-> {}]
    /\ event = NoEvent
    /\ ncalls = 0

\* Entry to a handler: the locals are fresh, the executor state is kept.
Enter(h, E, a1, a2, fault, next) ==
    /\ pc = "idle"
    /\ ncalls < MaxCalls
    /\ ncalls' = ncalls + 1
    /\ entry' = Snapshot
    /\ trace' = <<>>
    /\ event' = NoEvent
    /\ frame' = [EmptyFrame EXCEPT !.handler = h, !.E = E, !.arg1 = a1,
                                   !.arg2 = a2, !.start_clk = clk,
                                   !.fault = fault]
    /\ pc' = IF fault = "none" THEN next ELSE "fatal"
    /\ UNCHANGED <<mem, clk, local_mem_access, local_page_prot_access, curve>>

\* rt.mr_slice(addr, len): the words, their records, the page-prot records;
\* the access is accumulated in the local access sets.
MrSlice(f, addr, len, next) ==
    /\ frame' = [f EXCEPT
                    !.read_words = slice_unsafe(mem, addr, len),
                    !.read_records = mr_records(mem, addr, len, clk),
                    !.read_page_prot_records = page_prot_records(addr, len, clk)]
    /\ local_mem_access' = local_mem_access \cup Range(SliceAddrs(addr, len))
    /\ local_page_prot_access' =
            local_page_prot_access \cup Range(SlicePages(addr, len))
    /\ trace' = Append(trace, PortCall("mr_slice", addr, len))
    /\ pc' = next
    /\ UNCHANGED <<mem, clk, entry, event, ncalls, curve>>

\* rt.mw_slice(addr, values, _): the words are stored, with their records.
MwSlice(f, addr, values, next) ==
    /\ mem' = mw_memory(mem, addr, values)
    /\ frame' = [f EXCEPT
                    !.write_records = mw_records(mem, addr, values, clk),
                    !.write_page_prot_records =
                        page_prot_records(addr, Len(values), clk)]
    /\ local_mem_access' =
            local_mem_access \cup Range(SliceAddrs(addr, Len(values)))
    /\ local_page_prot_access' =
            local_page_prot_access \cup Range(SlicePages(addr, Len(values)))
    /\ trace' = Append(trace, PortCall("mw_slice", addr, Len(values)))
    /\ pc' = next
    /\ UNCHANGED <<clk, entry, event, ncalls, curve>>

\* rt.postprocess(): the local accesses are drained into the event.
Postprocess(ev) ==
    /\ event' = [ev EXCEPT
                    !.local_mem_access = local_mem_access,
                    !.local_page_prot_access = local_page_prot_access]
    /\ local_mem_access' = {}
    /\ local_page_prot_access' = {}
    /\ trace' = Append(trace, PortCall("postprocess", 0, 0))
    /\ pc' = "idle"
    /\ UNCHANGED <<mem, clk, frame, entry, ncalls, curve>>

---------------------------------------------------------------------------
(* create_ec_add_event                                                     *)

\* Mutant: the assertion on q_ptr is missing.
AddFault_NoQCheck(p_ptr, q_ptr) ==
    IF p_ptr % 8 # 0 THEN "p_ptr must be 8-byte aligned" ELSE "none"

AddFault(p_ptr, q_ptr) ==
    IF p_ptr % 8 # 0 THEN "p_ptr must be 8-byte aligned"
    ELSE IF q_ptr % 8 # 0 THEN "q_ptr must be 8-byte aligned"
    ELSE "none"

\* let start_clk = rt.clk; the two alignment assertions.
AddEntry(E, arg1, arg2) ==
    Enter("add", E, arg1, arg2, AddFault(arg1, arg2), "add_peek")

\* Mutant: p is read through the checked read path.
AddPeek_Checked ==
    /\ pc = "add_peek"
    /\ MrSlice([frame EXCEPT
                    !.p = slice_unsafe(mem, frame.arg1, WordsCurvePoint(frame.E))],
               frame.arg1, WordsCurvePoint(frame.E), "add_read")

\* let p = rt.slice_unsafe(p_ptr, num_words)
AddPeek ==
    /\ pc = "add_peek"
    /\ frame' = [frame EXCEPT
                    !.p = slice_unsafe(mem, frame.arg1, WordsCurvePoint(frame.E))]
    /\ trace' = Append(trace, PortCall("slice_unsafe", frame.arg1,
                                       WordsCurvePoint(frame.E)))
    /\ pc' = "add_read"
    /\ UNCHANGED <<mem, clk, local_mem_access, local_page_prot_access, entry,
                   event, ncalls, curve>>

\* let (q_memory_records, q, read_page_prot_records) = rt.mr_slice(q_ptr, num_words)
AddRead ==
    /\ pc = "add_read"
    /\ MrSlice(frame, frame.arg2, WordsCurvePoint(frame.E), "add_tick")

\* Mutant: the sum is not taken, p is encoded back.
add_result_words_KeepsP(E, p, q) ==
    to_words_le(E, from_words_le(E, p))

\* The words of p + q.
add_result_words(E, p, q) ==
    to_words_le(E, ec_add(E, from_words_le(E, p), from_words_le(E, q)))

\* Mutant: the clock is not advanced between the read and the write.
AddTick_NoTick ==
    /\ pc = "add_tick"
    /\ frame' = [frame EXCEPT
                    !.result_words =
                        add_result_words(frame.E, frame.p, frame.read_words)]
    /\ pc' = "add_write"
    /\ UNCHANGED <<mem, clk, local_mem_access, local_page_prot_access, trace,
                   entry, event, ncalls, curve>>

\* rt.clk += 1; result_words = (p_affine + q_affine).to_words_le()
AddTick ==
    /\ pc = "add_tick"
    /\ clk' = clk + 1
    /\ frame' = [frame EXCEPT
                    !.result_words =
                        add_result_words(frame.E, frame.p, frame.read_words)]
    /\ pc' = "add_write"
    /\ UNCHANGED <<mem, local_mem_access, local_page_prot_access, trace, entry,
                   event, ncalls, curve>>

\* Mutant: the sum is written to q_ptr.
AddWrite_ToQ ==
    /\ pc = "add_write"
    /\ MwSlice(frame, frame.arg2, frame.result_words, "add_flush")

\* rt.mw_slice(p_ptr, &result_words, true)
AddWrite ==
    /\ pc = "add_write"
    /\ MwSlice(frame, frame.arg1, frame.result_words, "add_flush")

\* Mutant: the event's q is read again after the write-back.
AddEvent_QAfterWrite ==
    [kind |-> "add", clk |-> frame.start_clk, p_ptr |-> frame.arg1,
     p |-> frame.p, q_ptr |-> frame.arg2,
     q |-> slice_unsafe(mem, frame.arg2, WordsCurvePoint(frame.E)),
     p_memory_records |-> frame.write_records,
     q_memory_records |-> frame.read_records,
     local_mem_access |-> {},
     page_prot_records |->
        [read_page_prot_records |-> frame.read_page_prot_records,
         write_page_prot_records |-> frame.write_page_prot_records],
     local_page_prot_access |-> {}]

\* The event, but for the local accesses postprocess returns.
AddEvent ==
    [kind |-> "add", clk |-> frame.start_clk, p_ptr |-> frame.arg1,
     p |-> frame.p, q_ptr |-> frame.arg2, q |-> frame.read_words,
     p_memory_records |-> frame.write_records,
     q_memory_records |-> frame.read_records,
     local_mem_access |-> {},
     page_prot_records |->
        [read_page_prot_records |-> frame.read_page_prot_records,
         write_page_prot_records |-> frame.write_page_prot_records],
     local_page_prot_access |-> {}]

\* Mutant: the event is built without the flush.
AddReturn_NoFlush ==
    /\ pc = "add_flush"
    /\ event' = [AddEvent EXCEPT
                    !.local_mem_access = local_mem_access,
                    !.local_page_prot_access = local_page_prot_access]
    /\ pc' = "idle"
    /\ UNCHANGED <<mem, clk, local_mem_access, local_page_prot_access, frame,
                   trace, entry, ncalls, curve>>

\* rt.postprocess(); EllipticCurveAddEvent { .. }
AddReturn ==
    /\ pc = "add_flush"
    /\ Postprocess(AddEvent)

---------------------------------------------------------------------------
(* create_ec_double_event                                                  *)

DoubleFault(p_ptr) ==
    IF p_ptr % 8 # 0 THEN "p_ptr must be 8-byte aligned" ELSE "none"

\* let start_clk = rt.clk; the alignment assertion.
DoubleEntry(E, arg1) ==
    Enter("double", E, arg1, 0, DoubleFault(arg1), "double_peek")

\* The words of 2p.
double_result_words(E, p) ==
    to_words_le(E, ec_double(E, from_words_le(E, p)))

\* let p = rt.slice_unsafe(p_ptr, num_words); result_words
DoublePeek ==
    /\ pc = "double_peek"
    /\ LET p == slice_unsafe(mem, frame.arg1, WordsCurvePoint(frame.E)) IN
       frame' = [frame EXCEPT
                    !.p = p,
                    !.result_words = double_result_words(frame.E, p)]
    /\ trace' = Append(trace, PortCall("slice_unsafe", frame.arg1,
                                       WordsCurvePoint(frame.E)))
    /\ pc' = "double_write"
    /\ UNCHANGED <<mem, clk, local_mem_access, local_page_prot_access, entry,
                   event, ncalls, curve>>

\* Mutant: the result is written one word above p_ptr.
DoubleWrite_NextWord ==
    /\ pc = "double_write"
    /\ MwSlice(frame, frame.arg1 + 8, frame.result_words, "double_flush")

\* rt.mw_slice(p_ptr, &result_words, true)
DoubleWrite ==
    /\ pc = "double_write"
    /\ MwSlice(frame, frame.arg1, frame.result_words, "double_flush")

\* Mutant: the event's p is read after the write-back.
DoubleEvent_PAfterWrite ==
    [kind |-> "double", clk |-> frame.start_clk, p_ptr |-> frame.arg1,
     p |-> slice_unsafe(mem, frame.arg1, WordsCurvePoint(frame.E)),
     p_memory_records |-> frame.write_records,
     local_mem_access |-> {},
     write_slice_page_prot_access |-> frame.write_page_prot_records,
     local_page_prot_access |-> {}]

DoubleEvent ==
    [kind |-> "double", clk |-> frame.start_clk, p_ptr |-> frame.arg1,
     p |-> frame.p, p_memory_records |-> frame.write_records,
     local_mem_access |-> {},
     write_slice_page_prot_access |-> frame.write_page_prot_records,
     local_page_prot_access |-> {}]

\* Mutant: the event takes the local accesses without draining them.
DoubleReturn_NoFlush ==
    /\ pc = "double_flush"
    /\ event' = [DoubleEvent EXCEPT
                    !.local_mem_access = local_mem_access,
                    !.local_page_prot_access = local_page_prot_access]
    /\ pc' = "idle"
    /\ UNCHANGED <<mem, clk, local_mem_access, local_page_prot_access, frame,
                   trace, entry, ncalls, curve>>

\* rt.postprocess(); EllipticCurveDoubleEvent { .. }
DoubleReturn ==
    /\ pc = "double_flush"
    /\ Postprocess(DoubleEvent)

---------------------------------------------------------------------------
(* create_ec_decompress_event                                              *)

\* Mutant: the assertion on sign_bit is missing.
DecompressFault_NoSignCheck(slice_ptr, sign_bit) ==
    IF slice_ptr % 8 # 0 THEN "slice_ptr must be 8-byte aligned" ELSE "none"

DecompressFault(slice_ptr, sign_bit) ==
    IF slice_ptr % 8 # 0 THEN "slice_ptr must be 8-byte aligned"
    ELSE IF ~(sign_bit <= 1) THEN "is_odd must be 0 or 1"
    ELSE "none"

\* let start_clk = rt.clk; the alignment and sign-bit assertions.
DecompressEntry(E, slice_ptr, sign_bit) ==
    Enter("decompress", E, slice_ptr, sign_bit,
          DecompressFault(slice_ptr, sign_bit), "decompress_read")

\* slice_ptr + (num_limbs as u64) exceeds the address width and the build
\* checks arithmetic overflow: the addition panics.
DecompressOverflow ==
    /\ pc = "decompress_read"
    /\ frame.arg1 + Limbs(frame.E) >= AddrMod
    /\ frame' = [frame EXCEPT !.fault = "attempt to add with overflow"]
    /\ pc' = "fatal"
    /\ UNCHANGED <<mem, clk, local_mem_access, local_page_prot_access, trace,
                   entry, event, ncalls, curve>>

\* rt.mr_slice(slice_ptr + num_limbs, num_words_field_element); x_bytes.
\* Without overflow checks the address wraps modulo the address width.
DecompressRead ==
    /\ pc = "decompress_read"
    /\ LET x_addr == (frame.arg1 + Limbs(frame.E)) % AddrMod
           len == Limbs(frame.E) \div 8
           x_vec == slice_unsafe(mem, x_addr, len)
       IN  MrSlice([frame EXCEPT !.x_addr = x_addr,
                                 !.x_bytes = words_to_bytes_le_vec(x_vec)],
                   x_addr, len, "decompress_select")

\* Mutant: the match has an arm for every curve.
DecompressCurves_Any == CurveTypes

\* The curves the match on E::CURVE_TYPE has a decompression function for.
DecompressCurves == {"Secp256k1", "Secp256r1", "Bls12381"}

\* Mutant: the y bytes are not resized to num_limbs.
decompressed_y_NoResize(E, x_bytes, sign_bit) ==
    LeDigits(decompress_fn(E, Reverse(x_bytes), sign_bit)[2], ByteBase)

\* computed_point.y.to_bytes_le(), resized to num_limbs.
decompressed_y(E, x_bytes, sign_bit) ==
    Resize(LeDigits(decompress_fn(E, Reverse(x_bytes), sign_bit)[2], ByteBase),
           Limbs(E))

\* Mutant: the curve match comes after the clock increment.
DecompressSelect_TickBeforePanic ==
    /\ pc = "decompress_select"
    /\ IF frame.E \in DecompressCurves
       THEN LET y == decompressed_y(frame.E, frame.x_bytes, frame.arg2) IN
            /\ frame' = [frame EXCEPT !.decompressed_y_bytes = y,
                                      !.result_words = bytes_to_words_le_vec(y)]
            /\ pc' = "decompress_tick"
            /\ clk' = clk
       ELSE /\ frame' = [frame EXCEPT !.fault = "Unsupported curve"]
            /\ pc' = "fatal"
            /\ clk' = clk + 1
    /\ UNCHANGED <<mem, local_mem_access, local_page_prot_access, trace,
                   entry, event, ncalls, curve>>

\* match E::CURVE_TYPE { .. }; decompressed_y_bytes; y_words
DecompressSelect ==
    /\ pc = "decompress_select"
    /\ IF frame.E \in DecompressCurves
       THEN LET y == decompressed_y(frame.E, frame.x_bytes, frame.arg2) IN
            /\ frame' = [frame EXCEPT !.decompressed_y_bytes = y,
                                      !.result_words = bytes_to_words_le_vec(y)]
            /\ pc' = "decompress_tick"
       ELSE /\ frame' = [frame EXCEPT !.fault = "Unsupported curve"]
            /\ pc' = "fatal"
    /\ UNCHANGED <<mem, clk, local_mem_access, local_page_prot_access, trace,
                   entry, event, ncalls, curve>>

\* Mutant: the clock is not advanced between the read and the write.
DecompressTick_NoTick ==
    /\ pc = "decompress_tick"
    /\ pc' = "decompress_write"
    /\ UNCHANGED <<mem, clk, local_mem_access, local_page_prot_access, frame,
                   trace, entry, event, ncalls, curve>>

\* Mutant: the clock is advanced by two ticks.
DecompressTick_Twice ==
    /\ pc = "decompress_tick"
    /\ clk' = clk + 2
    /\ pc' = "decompress_write"
    /\ UNCHANGED <<mem, local_mem_access, local_page_prot_access, frame, trace,
                   entry, event, ncalls, curve>>

\* rt.clk += 1
DecompressTick ==
    /\ pc = "decompress_tick"
    /\ clk' = clk + 1
    /\ pc' = "decompress_write"
    /\ UNCHANGED <<mem, local_mem_access, local_page_prot_access, frame, trace,
                   entry, event, ncalls, curve>>

\* rt.mw_slice(slice_ptr, &y_words, false)
DecompressWrite ==
    /\ pc = "decompress_write"
    /\ MwSlice(frame, frame.arg1, frame.result_words, "decompress_flush")

\* Mutant: the event's clk is the clock at return.
DecompressEvent_ClkNow ==
    [kind |-> "decompress", clk |-> clk, ptr |-> frame.arg1,
     sign_bit |-> (frame.arg2 # 0), x_bytes |-> frame.x_bytes,
     decompressed_y_bytes |-> frame.decompressed_y_bytes,
     x_memory_records |-> frame.read_records,
     y_memory_records |-> frame.write_records,
     local_mem_access |-> {},
     page_prot_records |->
        [read_page_prot_records |-> frame.read_page_prot_records,
         write_page_prot_records |-> frame.write_page_prot_records],
     local_page_prot_access |-> {}]

DecompressEvent ==
    [kind |-> "decompress", clk |-> frame.start_clk, ptr |-> frame.arg1,
     sign_bit |-> (frame.arg2 # 0), x_bytes |-> frame.x_bytes,
     decompressed_y_bytes |-> frame.decompressed_y_bytes,
     x_memory_records |-> frame.read_records,
     y_memory_records |-> frame.write_records,
     local_mem_access |-> {},
     page_prot_records |->
        [read_page_prot_records |-> frame.read_page_prot_records,
         write_page_prot_records |-> frame.write_page_prot_records],
     local_page_prot_access |-> {}]

\* rt.postprocess(); EllipticCurveDecompressEvent { .. }
DecompressReturn ==
    /\ pc = "decompress_flush"
    /\ Postprocess(DecompressEvent)

---------------------------------------------------------------------------
(* The executor issues one precompile after another.                       *)

\* Each behaviour runs the handlers instantiated at one curve.
Next ==
    \/ \E a \in AddInputs : AddEntry(curve, a[1], a[2])
    \/ AddPeek
    \/ AddRead
    \/ AddTick
    \/ AddWrite
    \/ AddReturn
    \/ \E a1 \in DoubleInputs : DoubleEntry(curve, a1)
    \/ DoublePeek
    \/ DoubleWrite
    \/ DoubleReturn
    \/ \E a1 \in SlicePtrInputs(curve), a2 \in SignInputs :
            DecompressEntry(curve, a1, a2)
    \/ DecompressOverflow
    \/ DecompressRead
    \/ DecompressSelect
    \/ DecompressTick
    \/ DecompressWrite
    \/ DecompressReturn

Spec == Init /\ [][Next]_vars

---------------------------------------------------------------------------
(* Properties.                                                             *)

\* The last handler returned an event of kind h; frame, trace and entry are
\* those of that invocation.
Completed(h) == pc = "idle" /\ event.kind = h

\* The positions of the port calls of kind op in the trace.
TraceOps(op) == {i \in DOMAIN trace : trace[i].op = op}

\* The values a sequence of write records stored.
WrittenValues(recs) == [i \in DOMAIN recs |-> recs[i].value]

\* A pointer argument of the invocation is not a multiple of 8.
MisalignedArgument ==
    \/ frame.handler \in {"add", "double", "decompress"} /\ frame.arg1 % 8 # 0
    \/ frame.handler = "add" /\ frame.arg2 % 8 # 0

\* C1: a handler called with a pointer argument that is not a multiple of 8
\* (p_ptr or q_ptr of add, p_ptr of double, slice_ptr of decompress) fails
\* fatally before any write: no checked write is issued and the memory
\* contents are those at entry.
C1_MisalignedFailsBeforeWrite ==
    MisalignedArgument =>
        /\ pc = "fatal"
        /\ TraceOps("mw_slice") = {}
        /\ mem = entry.mem

\* An addition whose q_ptr alone is misaligned has failed, after an earlier
\* invocation completed.
C1_Witness ==
    /\ pc = "fatal"
    /\ frame.handler = "add"
    /\ frame.arg1 % 8 = 0
    /\ frame.arg2 % 8 # 0
    /\ ncalls = 2

\* C2: a decompression called with sign_bit > 1 fails fatally before any
\* memory access: no read, no write and no flush is issued through the port.
C2_SignBitFailsBeforeAccess ==
    (frame.handler = "decompress" /\ frame.arg2 > 1) =>
        /\ pc = "fatal"
        /\ trace = <<>>
        /\ mem = entry.mem
        /\ local_mem_access = entry.local_mem_access
        /\ local_page_prot_access = entry.local_page_prot_access

\* A decompression with an aligned pointer and sign_bit 2 has failed.
C2_Witness ==
    /\ pc = "fatal"
    /\ frame.handler = "decompress"
    /\ frame.arg1 % 8 = 0
    /\ frame.arg2 = 2
    /\ frame.fault = "is_odd must be 0 or 1"

\* C3: in an addition the checked read of q, with its read page-protection
\* records, comes before the checked write of p, with its write
\* page-protection records, and the clock at the write is the clock at the
\* read plus 1, also when p_ptr and q_ptr lie on the same page.
C3_ReadBeforeWriteOneTick ==
    frame.handler = "add" =>
        /\ \A w \in TraceOps("mw_slice") :
              /\ TraceOps("mr_slice") # {}
              /\ \A r \in TraceOps("mr_slice") :
                    /\ r < w
                    /\ trace[r].addr = frame.arg2
                    /\ trace[w].addr = frame.arg1
                    /\ trace[w].clk = trace[r].clk + 1
        /\ \A wr \in Range(frame.write_page_prot_records) :
              /\ frame.read_page_prot_records # <<>>
              /\ \A rr \in Range(frame.read_page_prot_records) :
                    wr.clk = rr.clk + 1
        /\ \A wr \in Range(frame.write_records) :
              \A rr \in Range(frame.read_records) : wr.clk = rr.clk + 1

\* An addition completed whose operands are distinct and share a page, the
\* page being in both the read and the write page-protection records.
C3_Witness ==
    /\ Completed("add")
    /\ event.p_ptr # event.q_ptr
    /\ PageOf(event.p_ptr) = PageOf(event.q_ptr)
    /\ \E rr \in Range(event.page_prot_records.read_page_prot_records),
          wr \in Range(event.page_prot_records.write_page_prot_records) :
            rr.page = wr.page /\ wr.clk = rr.clk + 1

\* C4: an addition with p_ptr = q_ptr captures as q the content of memory at
\* that address at entry, and writes to p_ptr the words a doubling writes
\* from the same memory and the same p_ptr.
C4_SelfAddIsDouble ==
    (Completed("add") /\ event.p_ptr = event.q_ptr) =>
        LET N == WordsCurvePoint(frame.E)
            doubled == double_result_words(frame.E,
                            slice_unsafe(entry.mem, event.p_ptr, N))
        IN  /\ event.q = slice_unsafe(entry.mem, event.q_ptr, N)
            /\ WrittenValues(event.p_memory_records) = doubled
            /\ slice_unsafe(mem, event.p_ptr, N) = doubled

\* A self-addition of a point that is not the group's zero completed.
C4_Witness ==
    /\ Completed("add")
    /\ event.p_ptr = event.q_ptr
    /\ from_words_le(frame.E, event.p) # <<0, 0>>
    /\ slice_unsafe(mem, event.p_ptr, WordsCurvePoint(frame.E)) # event.p

\* C5: after an addition with aligned p_ptr and q_ptr completes, the N words
\* at p_ptr (the final values of p_memory_records) are
\* encode(decode(p) + decode(q)), p and q being the N words of memory at
\* p_ptr and q_ptr at entry.
C5_AddWritesSum ==
    Completed("add") =>
        LET E == frame.E
            N == WordsCurvePoint(E)
            p0 == slice_unsafe(entry.mem, event.p_ptr, N)
            q0 == slice_unsafe(entry.mem, event.q_ptr, N)
            sum == to_words_le(E, ec_add(E, from_words_le(E, p0),
                                            from_words_le(E, q0)))
        IN  /\ Len(event.p_memory_records) = N
            /\ WrittenValues(event.p_memory_records) = sum
            /\ slice_unsafe(mem, event.p_ptr, N) = sum

\* An addition of operands that overlap in part completed, and changed p.
C5_Witness ==
    /\ Completed("add")
    /\ event.p_ptr = 0
    /\ event.q_ptr = 8
    /\ event.p # event.q
    /\ slice_unsafe(mem, 0, WordsCurvePoint(frame.E)) # event.p

\* C6: after a doubling with aligned p_ptr completes, the N words at p_ptr are
\* encode(2 * decode(p)), p being the N words of memory at p_ptr at entry,
\* and the event's p is that content.
C6_DoubleWritesTwice ==
    Completed("double") =>
        LET E == frame.E
            N == WordsCurvePoint(E)
            p0 == slice_unsafe(entry.mem, event.p_ptr, N)
            twice == to_words_le(E, ec_double(E, from_words_le(E, p0)))
        IN  /\ event.p = p0
            /\ Len(event.p_memory_records) = N
            /\ WrittenValues(event.p_memory_records) = twice
            /\ slice_unsafe(mem, event.p_ptr, N) = twice

\* A doubling completed that changed the point in memory.
C6_Witness ==
    /\ Completed("double")
    /\ slice_unsafe(mem, event.p_ptr, WordsCurvePoint(frame.E)) # event.p

\* C7: a decompression for a curve other than Secp256k1, Secp256r1 and
\* Bls12381 fails fatally: it returns no event and writes no memory.
C7_UnsupportedCurveFails ==
    (frame.handler = "decompress"
        /\ frame.E \notin {"Secp256k1", "Secp256r1", "Bls12381"}) =>
        /\ pc \in {"decompress_read", "decompress_select", "fatal"}
        /\ event = NoEvent
        /\ TraceOps("mw_slice") = {}
        /\ mem = entry.mem

\* A decompression with valid arguments failed on the curve match.
C7_Witness ==
    /\ pc = "fatal"
    /\ frame.handler = "decompress"
    /\ frame.fault = "Unsupported curve"
    /\ TraceOps("mr_slice") # {}

\* C8: the clk of every returned event is the executor clock at entry to the
\* handler, not the clock after the handler's increment.
C8_EventClkIsEntryClk ==
    (pc = "idle" /\ event # NoEvent) =>
        /\ event.clk = entry.clk
        /\ event.kind \in {"add", "decompress"} => event.clk # clk

\* A decompression returned its event after the clock had advanced.
C8_Witness ==
    /\ Completed("decompress")
    /\ clk = entry.clk + 1
    /\ ncalls = 2

\* C9: the executor clock never decreases and no handler advances it by more
\* than one tick: a completed addition or decompression has advanced it by
\* exactly 1, a completed doubling has left it unchanged.
C9_ClockMonotoneOneTick ==
    [][/\ clk' >= clk
       /\ clk' - entry'.clk \in {0, 1}
       /\ (pc' = "idle" /\ event'.kind \in {"add", "decompress"}) =>
              clk' = entry'.clk + 1
       /\ (pc' = "idle" /\ event'.kind = "double") => clk' = entry'.clk]_vars

\* A doubling completed after an invocation that advanced the clock.
C9_Witness ==
    /\ Completed("double")
    /\ ncalls = 2
    /\ clk = 2
    /\ entry.clk = 2

\* The invocation has ended: it returned its event or failed fatally.
Ended == frame.handler # "none" /\ pc \in {"idle", "fatal"}

\* C10 as stated: every handler invocation flushes the local accumulators
\* exactly once, after every read and write it issues.
C10_EveryInvocationFlushesOnce ==
    Ended =>
        /\ Cardinality(TraceOps("postprocess")) = 1
        /\ trace[Len(trace)].op = "postprocess"

\* C10, amended: every handler invocation that returns an event has flushed
\* the local accumulators exactly once, after every read and write it
\* issued; an invocation that fails fatally has not flushed, and no
\* invocation flushes twice or accesses memory after its flush.
C10_ReturningInvocationFlushesOnce ==
    /\ (pc = "idle" /\ event # NoEvent) =>
            /\ Cardinality(TraceOps("postprocess")) = 1
            /\ trace[Len(trace)].op = "postprocess"
            /\ local_mem_access = {}
            /\ local_page_prot_access = {}
    /\ pc = "fatal" => TraceOps("postprocess") = {}
    /\ \A i \in TraceOps("postprocess") : i = Len(trace)

\* An addition returned after its peek, read, write and flush.
C10_Witness ==
    /\ Completed("add")
    /\ Len(trace) = 4
    /\ trace[2].op = "mr_slice"
    /\ trace[3].op = "mw_slice"
    /\ event.local_mem_access # {}

\* C11: the event of a decompression has len(x_bytes) = len(decompressed_y_bytes)
\* = num_limbs: the y bytes are the little-endian bytes of y followed by
\* zeros up to num_limbs (48 for Bls12381), also when the encoding of y the
\* curve library returns is shorter.
C11_DecompressByteWidths ==
    Completed("decompress") =>
        LET E == frame.E
            y == decompress_fn(E, Reverse(event.x_bytes), frame.arg2)[2]
            minimal == LeDigits(y, ByteBase)
        IN  /\ Len(event.x_bytes) = Limbs(E)
            /\ Len(event.decompressed_y_bytes) = Limbs(E)
            /\ \A i \in 1..Limbs(E) :
                  event.decompressed_y_bytes[i] =
                      IF i <= Len(minimal) THEN minimal[i] ELSE 0

\* A Bls12381 decompression returned 48 y bytes of which the last are padding
\* and the first are not all zero.
C11_Witness ==
    /\ Completed("decompress")
    /\ frame.E = "Bls12381"
    /\ Len(event.decompressed_y_bytes) = 48
    /\ event.decompressed_y_bytes[48] = 0
    /\ \E i \in 1..48 : event.decompressed_y_bytes[i] # 0

\* C12: a decompression reads x from the num_limbs / 8 words at
\* slice_ptr + num_limbs and writes y to the num_limbs / 8 words at slice_ptr;
\* when it has completed, the region at slice_ptr holds the zero-padded
\* little-endian y, the region at slice_ptr + num_limbs still holds the x
\* that was read, and no other memory word has changed.
C12_DecompressReadsAboveWritesAt ==
    Completed("decompress") =>
        LET nw == Limbs(frame.E) \div 8
            x_addr == event.ptr + Limbs(frame.E)
        IN  /\ \A r \in TraceOps("mr_slice") :
                  trace[r].addr = x_addr /\ trace[r].len = nw
            /\ \A w \in TraceOps("mw_slice") :
                  trace[w].addr = event.ptr /\ trace[w].len = nw
            /\ words_to_bytes_le_vec(slice_unsafe(mem, event.ptr, nw))
                    = event.decompressed_y_bytes
            /\ words_to_bytes_le_vec(slice_unsafe(mem, x_addr, nw))
                    = event.x_bytes
            /\ \A w \in DOMAIN mem :
                  (w \notin {WordIndex(a) : a \in Range(SliceAddrs(event.ptr, nw))})
                      => mem[w] = entry.mem[w]

\* C13: in a decompression the checked read of x is issued at the entry clock
\* and strictly before the checked write of y, which is issued at the entry
\* clock plus 1; the clock is advanced after the read and the curve
\* computation and before the write.
C13_DecompressReadTickWrite ==
    frame.handler = "decompress" =>
        /\ \A r \in TraceOps("mr_slice") : trace[r].clk = entry.clk
        /\ \A w \in TraceOps("mw_slice") :
              /\ TraceOps("mr_slice") # {}
              /\ \A r \in TraceOps("mr_slice") : r < w
              /\ trace[w].clk = entry.clk + 1
        /\ pc \in {"decompress_read", "decompress_select", "decompress_tick"} =>
              clk = entry.clk /\ TraceOps("mw_slice") = {}
        /\ pc = "decompress_tick" =>
              /\ TraceOps("mr_slice") # {}
              /\ Len(frame.decompressed_y_bytes) = Limbs(frame.E)
        /\ pc = "decompress_write" =>
              /\ clk = entry.clk + 1
              /\ TraceOps("mr_slice") # {}
              /\ TraceOps("mw_slice") = {}
        /\ \A rr \in Range(frame.read_records) : rr.clk = entry.clk
        /\ \A wr \in Range(frame.write_records) : wr.clk = entry.clk + 1

\* A decompression completed whose read of x and write of y touch the same
\* page, one tick apart.
C13_Witness ==
    /\ Completed("decompress")
    /\ \E rr \in Range(event.page_prot_records.read_page_prot_records),
          wr \in Range(event.page_prot_records.write_page_prot_records) :
            rr.page = wr.page /\ rr.clk = entry.clk /\ wr.clk = entry.clk + 1

\* The faults of the argument assertions.
ArgumentFaults ==
    {"p_ptr must be 8-byte aligned", "q_ptr must be 8-byte aligned",
     "slice_ptr must be 8-byte aligned", "is_odd must be 0 or 1"}

\* C14 as stated: an invocation that ends in a fatal validation fault
\* (misaligned pointer, sign_bit > 1, unsupported curve) leaves the memory
\* contents, the clock and the accumulated local access records as they were
\* at entry.
C14_FaultLeavesNoEffect ==
    (pc = "fatal" /\ frame.fault \in ArgumentFaults \cup {"Unsupported curve"}) =>
        /\ mem = entry.mem
        /\ clk = entry.clk
        /\ local_mem_access = entry.local_mem_access
        /\ local_page_prot_access = entry.local_page_prot_access

\* C14, amended: a misaligned pointer or a sign_bit > 1 leaves memory, clock
\* and local access accumulators as at entry, no port call having been
\* issued; an unsupported curve leaves memory and clock as at entry, and the
\* accumulators hold, besides what they held at entry, the checked read of x.
C14_FaultEffects ==
    /\ (pc = "fatal" /\ frame.fault \in ArgumentFaults) =>
            /\ trace = <<>>
            /\ mem = entry.mem
            /\ clk = entry.clk
            /\ local_mem_access = entry.local_mem_access
            /\ local_page_prot_access = entry.local_page_prot_access
    /\ (pc = "fatal" /\ frame.fault = "Unsupported curve") =>
            LET nw == Limbs(frame.E) \div 8 IN
            /\ mem = entry.mem
            /\ clk = entry.clk
            /\ local_mem_access =
                    entry.local_mem_access
                        \cup Range(SliceAddrs(frame.x_addr, nw))
            /\ local_page_prot_access =
                    entry.local_page_prot_access
                        \cup Range(SlicePages(frame.x_addr, nw))

\* A decompression failed on the curve match with the read of x accumulated.
C14_Witness ==
    /\ pc = "fatal"
    /\ frame.fault = "Unsupported curve"
    /\ local_mem_access # entry.local_mem_access
    /\ mem = entry.mem
    /\ clk = entry.clk

\* C15: the read of p in an addition and in a doubling is a raw peek: it
\* changes no memory word, no clock and no local access accumulator and
\* makes no record, so the event of an addition carries read records and read
\* page-protection records for q only, and the event of a doubling carries
\* no read record.
C15_PeekLeavesNoRecord ==
    /\ pc \in {"add_read", "double_write"} =>
            /\ Len(frame.p) = WordsCurvePoint(frame.E)
            /\ mem = entry.mem
            /\ clk = entry.clk
            /\ local_mem_access = entry.local_mem_access
            /\ local_page_prot_access = entry.local_page_prot_access
            /\ frame.read_records = <<>>
            /\ frame.read_page_prot_records = <<>>
            /\ TraceOps("mr_slice") = {}
    /\ Completed("add") =>
            LET N == WordsCurvePoint(frame.E) IN
            /\ [i \in 1..Len(event.q_memory_records) |->
                    event.q_memory_records[i].addr] = SliceAddrs(event.q_ptr, N)
            /\ [i \in 1..Len(event.page_prot_records.read_page_prot_records) |->
                    event.page_prot_records.read_page_prot_records[i].page]
                        = SlicePages(event.q_ptr, N)
            /\ Cardinality(TraceOps("mr_slice")) = 1
    /\ Completed("double") =>
            /\ frame.read_records = <<>>
            /\ frame.read_page_prot_records = <<>>
            /\ TraceOps("mr_slice") = {}
            /\ event.local_mem_access =
                    Range(SliceAddrs(event.p_ptr, WordsCurvePoint(frame.E)))

\* An addition of disjoint operands completed: its read records are those
\* of q, none of p.
C15_Witness ==
    /\ Completed("add")
    /\ event.p_ptr = 0
    /\ event.q_ptr = 96
    /\ event.p # <<>>
    /\ \A i \in DOMAIN event.q_memory_records :
            event.q_memory_records[i].addr >= 96

\* C16: for all aligned p_ptr and q_ptr, also when the two regions overlap in
\* part, the p and q of the addition's event are the contents of memory at
\* p_ptr and q_ptr at entry, the read records of q hold those entry values,
\* and the sum written back is computed from them.
C16_AddUsesEntryValues ==
    Completed("add") =>
        LET E == frame.E
            N == WordsCurvePoint(E)
            p0 == slice_unsafe(entry.mem, event.p_ptr, N)
            q0 == slice_unsafe(entry.mem, event.q_ptr, N)
        IN  /\ event.p = p0
            /\ event.q = q0
            /\ [i \in 1..Len(event.q_memory_records) |->
                    event.q_memory_records[i].value] = q0
            /\ WrittenValues(event.p_memory_records)
                    = to_words_le(E, ec_add(E, from_words_le(E, p0),
                                               from_words_le(E, q0)))

\* An addition completed with p_ptr strictly inside the region of q, and the
\* write-back changed words of q.
C16_Witness ==
    /\ Completed("add")
    /\ event.q_ptr < event.p_ptr
    /\ event.p_ptr < event.q_ptr + 8 * WordsCurvePoint(frame.E)
    /\ slice_unsafe(mem, event.q_ptr, WordsCurvePoint(frame.E)) # event.q

\* The positions of the checked accesses in the trace.
CheckedOps == TraceOps("mr_slice") \cup TraceOps("mw_slice")

\* C17: after any sequence of completed invocations the local access
\* accumulators are empty when the next invocation starts, so the
\* local_mem_access and local_page_prot_access of a returned event are the
\* accesses that invocation issued, and none of an earlier one.
C17_AccumulatorsPerInvocation ==
    /\ frame.handler # "none" =>
            /\ entry.local_mem_access = {}
            /\ entry.local_page_prot_access = {}
    /\ pc = "idle" =>
            local_mem_access = {} /\ local_page_prot_access = {}
    /\ (pc = "idle" /\ event # NoEvent) =>
            /\ event.local_mem_access =
                    UNION {Range(SliceAddrs(trace[i].addr, trace[i].len)) :
                                i \in CheckedOps}
            /\ event.local_page_prot_access =
                    UNION {Range(SlicePages(trace[i].addr, trace[i].len)) :
                                i \in CheckedOps}

\* A doubling at 96 completed after an invocation that advanced the clock (an
\* addition or a decompression, which accessed other addresses), and its
\* event holds the addresses of its own write only.
C17_Witness ==
    /\ Completed("double")
    /\ ncalls = 2
    /\ entry.clk = 2
    /\ entry.mem # mem
    /\ event.p_ptr = 96
    /\ event.local_mem_access =
            Range(SliceAddrs(96, WordsCurvePoint(frame.E)))

\* The word indices of the N words at p_ptr.
PRegion == {WordIndex(a) :
                a \in Range(SliceAddrs(frame.arg1, WordsCurvePoint(frame.E)))}

\* C18: an addition or a doubling changes memory only in the N words at
\* p_ptr: every word outside that region, the words at q_ptr that do not
\* overlap it included, has after the call the value it had before.
C18_AddDoubleFrame ==
    frame.handler \in {"add", "double"} =>
        \A w \in DOMAIN mem : w \notin PRegion => mem[w] = entry.mem[w]

\* An addition of disjoint operands completed: p has changed, q has not.
C18_Witness ==
    /\ Completed("add")
    /\ event.p_ptr = 0
    /\ event.q_ptr = 96
    /\ mem # entry.mem
    /\ slice_unsafe(mem, 96, WordsCurvePoint(frame.E)) = event.q

\* C19: for every 8-byte aligned slice_ptr of the address range, the address
\* slice_ptr + num_limbs a decompression reads x from does not wrap around
\* modulo the address width: the region read lies immediately above the
\* region written at slice_ptr, and is disjoint from it.
C19_ReadAddressDoesNotWrap ==
    frame.handler = "decompress" =>
        \A r \in TraceOps("mr_slice") :
            /\ trace[r].addr = frame.arg1 + Limbs(frame.E)
            /\ trace[r].addr > frame.arg1
            /\ Range(SliceAddrs(trace[r].addr, trace[r].len))
                    \cap Range(SliceAddrs(frame.arg1, Limbs(frame.E) \div 8)) = {}

===========================================================================
